---- MODULE Spec2Model ----
(***************************************************************************)
(* Verification model of the node_exporter collectors found in this        *)
(* repository: the qdisc collector, the Darwin diskstats collector and the *)
(* time collector, driven directly (Spec) and through the scrape engine    *)
(* and registry described in spec.md sections 4.3 and 4.4 (EngineSpec).    *)
(***************************************************************************)
EXTENDS Integers, Sequences, FiniteSets, TLC

VARIABLES
    collectorQdisc,   \* value of the flag --collector.qdisc.fixtures
    fixtureFile,      \* content of <fixtures>/results.json on disk
    call,             \* the most recent Update call made directly on a collector
    phase,            \* process phase: "init", "parsed", "serving"
    overrides,        \* per-collector enable/disable flags given at startup
    parallel,         \* whether a cycle runs its probes in parallel
    instances,        \* names of the constructed collectors
    cycle,            \* "Idle", "Running", "Done"
    probeState,       \* per collector: "None", "Pending", "Succeeded", "Failed"
    out               \* the samples streamed to the exposition layer this cycle

engineVars == <<phase, overrides, parallel, instances, cycle, probeState, out>>
vars == <<collectorQdisc, fixtureFile, call,
          phase, overrides, parallel, instances, cycle, probeState, out>>

----------------------------------------------------------------------------
(* Bounds *)

MaxMsgs == 2          \* longest qdisc list a directly driven Update sees
MaxDrives == 2        \* longest drive list a directly driven Update sees
MaxCycleMsgs == 1     \* longest qdisc list inside a scrape cycle
MaxCycleDrives == 1   \* longest drive list inside a scrape cycle
MaxDuration == 1      \* largest elapsed time (s) measured for one probe

SeqsUpTo(S, n) == UNION {[1..k -> S] : k \in 0..n}

----------------------------------------------------------------------------
(* float64 values.  A value is kept as the exact quotient num/den; den = 0 *)
(* stands for +Inf (num = 1) and NaN (num = 0), the results of a float     *)
(* division by zero.                                                       *)

RECURSIVE GCD(_, _)
GCD(a, b) == IF b = 0 THEN a ELSE GCD(b, a % b)

Float64(n) == [num |-> n, den |-> 1]

FloatDiv(a, b) ==
    IF b = 0
    THEN [num |-> IF a = 0 THEN 0 ELSE 1, den |-> 0]
    ELSE LET g == GCD(a, b) IN [num |-> a \div g, den |-> b \div g]

NanosPerSecond == 1000000000

\* time.Duration.Seconds()
Seconds(d) == FloatDiv(d, NanosPerSecond)

----------------------------------------------------------------------------
(* Typed metric descriptors *)

namespace == "node"
diskSubsystem == "disk"
diskLabelNames == <<"device">>
CounterValue == "counter"
GaugeValue == "gauge"

BuildFQName(ns, subsystem, name) == <<ns, subsystem, name>>

NewDesc(fqName, help, variableLabels) ==
    [fqName |-> fqName, help |-> help, variableLabels |-> variableLabels]

typedDesc(desc, valueType) == [desc |-> desc, valueType |-> valueType]

mustNewConstMetric(d, value, labels) ==
    [desc |-> d.desc, valueType |-> d.valueType, value |-> value, labels |-> labels]

----------------------------------------------------------------------------
(* qdisc collector *)

NewQdiscStatCollector ==
    [bytes |-> typedDesc(NewDesc(BuildFQName(namespace, "qdisc", "bytes_total"),
                                 "Number of bytes sent.",
                                 <<"device", "kind">>), CounterValue),
     packets |-> typedDesc(NewDesc(BuildFQName(namespace, "qdisc", "packets_total"),
                                 "Number of packets sent.",
                                 <<"device", "kind">>), CounterValue),
     drops |-> typedDesc(NewDesc(BuildFQName(namespace, "qdisc", "drops_total"),
                                 "Number of packets dropped.",
                                 <<"device", "kind">>), CounterValue),
     requeues |-> typedDesc(NewDesc(BuildFQName(namespace, "qdisc", "requeues_total"),
                                 "Number of packets dequeued, not transmitted, and requeued.",
                                 <<"device", "kind">>), CounterValue),
     overlimits |-> typedDesc(NewDesc(BuildFQName(namespace, "qdisc", "overlimits_total"),
                                 "Number of overlimit packets.",
                                 <<"device", "kind">>), CounterValue),
     qlength |-> typedDesc(NewDesc(BuildFQName(namespace, "qdisc", "current_queue_length"),
                                 "Number of packets currently in queue to be sent.",
                                 <<"device", "kind">>), GaugeValue),
     backlog |-> typedDesc(NewDesc(BuildFQName(namespace, "qdisc", "backlog"),
                                 "Number of bytes currently in queue to be sent.",
                                 <<"device", "kind">>), GaugeValue)]

\* qdisc.QdiscInfo values the data source is made to return
QdiscInfo(iface, parent, kind, bytes, packets, drops, requeues, overlimits, qlen, backlog) ==
    [IfaceName |-> iface, Parent |-> parent, Kind |-> kind, Bytes |-> bytes,
     Packets |-> packets, Drops |-> drops, Requeues |-> requeues,
     Overlimits |-> overlimits, Qlen |-> qlen, Backlog |-> backlog]

RootEth0 == QdiscInfo("eth0", 0, "pfifo", 1000, 10, 0, 0, 0, 5, 200)
ChildEth0 == QdiscInfo("eth0", 1, "fq_codel", 31, 32, 33, 34, 35, 36, 37)
RootEth1 == QdiscInfo("eth1", 0, "fq", 41, 42, 43, 44, 45, 46, 47)

QdiscInfos == {RootEth0, ChildEth0, RootEth1}

\* what qdisc.Get() can return: a list with no error, or an error, with
\* nothing or with what was read before the error
QdiscGetReturns(n) ==
    [msgs : SeqsUpTo(QdiscInfos, n), err : {"nil"}]
        \cup [msgs : SeqsUpTo(QdiscInfos, 1), err : {"netlink"}]

\* the argument standing for qdisc.Get() where it is not called
NotCalled == [msgs |-> <<>>, err |-> "nil"]

\* the returns of qdisc.Get() an Update under the flag value can meet
GetReturns(fixtures, n) == IF fixtures = "" THEN QdiscGetReturns(n) ELSE {NotCalled}

(* results.json.  A JSON value is a number, a string or absent; a document *)
(* is missing, not valid JSON, valid JSON that is not an array, or an      *)
(* array of objects.                                                       *)
JNum(n) == [t |-> "num", n |-> n, s |-> ""]
JStr(s) == [t |-> "str", n |-> 0, s |-> s]
JAbsent == [t |-> "absent", n |-> 0, s |-> ""]

UintFields == {"Parent", "Bytes", "Packets", "Drops", "Requeues", "Overlimits",
               "Qlen", "Backlog"}
StringFields == {"IfaceName", "Kind"}

\* the JSON object json.Marshal writes for a QdiscInfo
ToJSON(q) ==
    [f \in UintFields \cup StringFields |->
        IF f \in UintFields THEN JNum(q[f]) ELSE JStr(q[f])]

\* an object whose Parent is a string, and one with no Parent key at all
\* (which decodes to RootEth1)
BadParent == [ToJSON(ChildEth0) EXCEPT !["Parent"] = JStr("1")]
NoParent == [ToJSON(RootEth1) EXCEPT !["Parent"] = JAbsent]

JSONObjects == {ToJSON(RootEth0), ToJSON(ChildEth0), BadParent, NoParent}

Files(n) ==
    {[kind |-> "missing", elems |-> <<>>],
     [kind |-> "syntax", elems |-> <<>>],
     [kind |-> "object", elems |-> <<>>]}
        \cup [kind : {"array"}, elems : SeqsUpTo(JSONObjects, n)]

\* encoding/json decoding of one value into a uint field / a string field:
\* a value of the wrong type leaves the field at its zero value and is
\* reported as an UnmarshalTypeError
DecodeUint(j) ==
    IF j.t = "absent" THEN [v |-> 0, ok |-> TRUE]
    ELSE IF j.t = "num" /\ j.n >= 0 THEN [v |-> j.n, ok |-> TRUE]
    ELSE [v |-> 0, ok |-> FALSE]

DecodeString(j) ==
    IF j.t = "absent" THEN [v |-> "", ok |-> TRUE]
    ELSE IF j.t = "str" THEN [v |-> j.s, ok |-> TRUE]
    ELSE [v |-> "", ok |-> FALSE]

DecodeField(o, f) == IF f \in UintFields THEN DecodeUint(o[f]) ELSE DecodeString(o[f])

DecodeObject(o) == [f \in DOMAIN o |-> DecodeField(o, f).v]

ObjectOK(o) == \A f \in DOMAIN o : DecodeField(o, f).ok

\* json.Unmarshal(b, &res): a syntax error decodes nothing; a type error
\* is remembered while decoding goes on, and returned at the end
Unmarshal(doc) ==
    IF doc.kind = "syntax" THEN [res |-> <<>>, err |-> "SyntaxError"]
    ELSE IF doc.kind = "object" THEN [res |-> <<>>, err |-> "UnmarshalTypeError"]
    ELSE [res |-> [i \in DOMAIN doc.elems |-> DecodeObject(doc.elems[i])],
          err |-> IF \A i \in DOMAIN doc.elems : ObjectOK(doc.elems[i])
                  THEN "nil" ELSE "UnmarshalTypeError"]

\* testQdiscGet appending to the slice of the previous call instead of
\* starting from an empty one
testQdiscGetRetained(fixtures, file) ==
    IF file.kind = "missing"
    THEN [res |-> <<>>, err |-> "ENOENT"]
    ELSE [res |-> call.msgs \o Unmarshal(file).res, err |-> Unmarshal(file).err]

testQdiscGet(fixtures, file) ==
    IF file.kind = "missing"
    THEN [res |-> <<>>, err |-> "ENOENT"]
    ELSE Unmarshal(file)

\* the seven sends with Qlen and Backlog exchanged
qdiscSendsSwapped(c, msg) ==
    << mustNewConstMetric(c.bytes, Float64(msg.Bytes), <<msg.IfaceName, msg.Kind>>),
       mustNewConstMetric(c.packets, Float64(msg.Packets), <<msg.IfaceName, msg.Kind>>),
       mustNewConstMetric(c.drops, Float64(msg.Drops), <<msg.IfaceName, msg.Kind>>),
       mustNewConstMetric(c.requeues, Float64(msg.Requeues), <<msg.IfaceName, msg.Kind>>),
       mustNewConstMetric(c.overlimits, Float64(msg.Overlimits), <<msg.IfaceName, msg.Kind>>),
       mustNewConstMetric(c.qlength, Float64(msg.Backlog), <<msg.IfaceName, msg.Kind>>),
       mustNewConstMetric(c.backlog, Float64(msg.Qlen), <<msg.IfaceName, msg.Kind>>) >>

\* the seven sends of one loop iteration
qdiscSends(c, msg) ==
    << mustNewConstMetric(c.bytes, Float64(msg.Bytes), <<msg.IfaceName, msg.Kind>>),
       mustNewConstMetric(c.packets, Float64(msg.Packets), <<msg.IfaceName, msg.Kind>>),
       mustNewConstMetric(c.drops, Float64(msg.Drops), <<msg.IfaceName, msg.Kind>>),
       mustNewConstMetric(c.requeues, Float64(msg.Requeues), <<msg.IfaceName, msg.Kind>>),
       mustNewConstMetric(c.overlimits, Float64(msg.Overlimits), <<msg.IfaceName, msg.Kind>>),
       mustNewConstMetric(c.qlength, Float64(msg.Qlen), <<msg.IfaceName, msg.Kind>>),
       mustNewConstMetric(c.backlog, Float64(msg.Backlog), <<msg.IfaceName, msg.Kind>>) >>

\* the loop without the Parent filter
RECURSIVE qdiscRangeAll(_, _)
qdiscRangeAll(c, msgs) ==
    IF msgs = <<>> THEN <<>>
    ELSE qdiscSends(c, Head(msgs)) \o qdiscRangeAll(c, Tail(msgs))

\* for _, msg := range msgs { if msg.Parent != 0 { continue }; ... }
RECURSIVE qdiscRange(_, _)
qdiscRange(c, msgs) ==
    IF msgs = <<>> THEN <<>>
    ELSE IF Head(msgs).Parent # 0
         THEN qdiscRange(c, Tail(msgs))
         ELSE qdiscSends(c, Head(msgs)) \o qdiscRange(c, Tail(msgs))

\* a source that falls back to qdisc.Get() when the fixture cannot be read
qdiscSourceFallback(fixtures, file, get) ==
    IF fixtures = ""
    THEN [msgs |-> get.msgs, err |-> get.err, nGet |-> 1, nRead |-> 0]
    ELSE LET t == testQdiscGet(fixtures, file)
         IN IF t.err = "nil"
            THEN [msgs |-> t.res, err |-> t.err, nGet |-> 0, nRead |-> 1]
            ELSE [msgs |-> get.msgs, err |-> get.err, nGet |-> 1, nRead |-> 1]

\* the data source read at the head of Update
qdiscSource(fixtures, file, get) ==
    IF fixtures = ""
    THEN [msgs |-> get.msgs, err |-> get.err, nGet |-> 1, nRead |-> 0]
    ELSE LET t == testQdiscGet(fixtures, file)
         IN [msgs |-> t.res, err |-> t.err, nGet |-> 0, nRead |-> 1]

\* an Update that ranges over msgs before it looks at err
qdiscUpdateUnchecked(c, fixtures, file, get) ==
    LET src == qdiscSource(fixtures, file, get)
    IN [probe |-> "qdisc", fixtures |-> fixtures, msgs |-> src.msgs, stats |-> <<>>,
        nGet |-> src.nGet, nRead |-> src.nRead,
        err |-> src.err,
        ch |-> qdiscRange(c, src.msgs)]

\* qdiscStatCollector.Update: ch is what was sent on the channel
qdiscUpdate(c, fixtures, file, get) ==
    LET src == qdiscSource(fixtures, file, get)
    IN [probe |-> "qdisc", fixtures |-> fixtures, msgs |-> src.msgs, stats |-> <<>>,
        nGet |-> src.nGet, nRead |-> src.nRead,
        err |-> src.err,
        ch |-> IF src.err # "nil" THEN <<>> ELSE qdiscRange(c, src.msgs)]

----------------------------------------------------------------------------
(* diskstats collector (Darwin) *)

\* iostat.DriveStats values the data source is made to return; the two
\* times are time.Duration values in nanoseconds
DriveStats(name, blockSize, bytesRead, bytesWritten, numRead, numWrite, readTime, writeTime, readErrors, writeErrors, readRetries, writeRetries) ==
    [Name |-> name, BlockSize |-> blockSize, BytesRead |-> bytesRead,
     BytesWritten |-> bytesWritten, NumRead |-> numRead, NumWrite |-> numWrite,
     TotalReadTime |-> readTime, TotalWriteTime |-> writeTime,
     ReadErrors |-> readErrors, WriteErrors |-> writeErrors,
     ReadRetries |-> readRetries, WriteRetries |-> writeRetries]

Disk0 == DriveStats("disk0", 4, 4096, 2048, 6, 3, 1500000000, 250000000, 1, 2, 3, 4)
Disk1 == DriveStats("disk1", 0, 512, 0, 7, 0, 2000000000, 0, 0, 0, 0, 0)
Drives == {Disk0, Disk1}

\* what iostat.ReadDriveStats() can return
ReadDriveStatsReturns(n) ==
    [stats : SeqsUpTo(Drives, n), err : {"nil"}]
        \cup [stats : {<<>>}, err : {"IOKit"}]

diskDesc(name, help) ==
    NewDesc(BuildFQName(namespace, diskSubsystem, name), help, diskLabelNames)

\* the value functions of the twelve typedDescFunc entries, by position
diskValue(k, stat) ==
    CASE k = 1 -> Float64(stat.NumRead)
      [] k = 2 -> FloatDiv(stat.NumRead, stat.BlockSize)
      [] k = 3 -> Seconds(stat.TotalReadTime)
      [] k = 4 -> Float64(stat.NumWrite)
      [] k = 5 -> FloatDiv(stat.NumWrite, stat.BlockSize)
      [] k = 6 -> Seconds(stat.TotalWriteTime)
      [] k = 7 -> Float64(stat.BytesRead)
      [] k = 8 -> Float64(stat.BytesWritten)
      [] k = 9 -> Float64(stat.ReadErrors)
      [] k = 10 -> Float64(stat.WriteErrors)
      [] k = 11 -> Float64(stat.ReadRetries)
      [] k = 12 -> Float64(stat.WriteRetries)

\* the descs slice of the collector
NewDiskstatsCollector ==
    << typedDesc(diskDesc("reads_completed_total",
                          "The total number of reads completed successfully."), CounterValue),
       typedDesc(diskDesc("read_sectors_total",
                          "The total number of sectors read successfully."), CounterValue),
       typedDesc(diskDesc("read_time_seconds_total",
                          "The total number of seconds spent by all reads."), CounterValue),
       typedDesc(diskDesc("writes_completed_total",
                          "The total number of writes completed successfully."), CounterValue),
       typedDesc(diskDesc("written_sectors_total",
                          "The total number of sectors written successfully."), CounterValue),
       typedDesc(diskDesc("write_time_seconds_total",
                          "This is the total number of seconds spent by all writes."), CounterValue),
       typedDesc(diskDesc("read_bytes_total",
                          "The total number of bytes read successfully."), CounterValue),
       typedDesc(diskDesc("written_bytes_total",
                          "The total number of bytes written successfully."), CounterValue),
       typedDesc(diskDesc("read_errors_total",
                          "The total number of read errors."), CounterValue),
       typedDesc(diskDesc("write_errors_total",
                          "The total number of write errors."), CounterValue),
       typedDesc(diskDesc("read_retries_total",
                          "The total number of read retries."), CounterValue),
       typedDesc(diskDesc("write_retries_total",
                          "The total number of write retries."), CounterValue) >>

\* the sends of one drive with the values that are not finite left out
diskSendsFinite(descs, stats) ==
    SelectSeq([k \in DOMAIN descs |->
                  mustNewConstMetric(descs[k], diskValue(k, stats), <<stats.Name>>)],
              LAMBDA m : m.value.den # 0)

\* for _, desc := range c.descs { ch <- desc.mustNewConstMetric(desc.value(stats), stats.Name) }
diskSends(descs, stats) ==
    [k \in DOMAIN descs |-> mustNewConstMetric(descs[k], diskValue(k, stats), <<stats.Name>>)]

\* for _, stats := range diskStats { ... }
RECURSIVE diskRange(_, _)
diskRange(descs, diskStats) ==
    IF diskStats = <<>> THEN <<>>
    ELSE diskSends(descs, Head(diskStats)) \o diskRange(descs, Tail(diskStats))

\* diskstatsCollector.Update
diskstatsUpdate(descs, read) ==
    [probe |-> "diskstats", fixtures |-> "", msgs |-> <<>>, stats |-> read.stats,
     nGet |-> 0, nRead |-> 0,
     err |-> IF read.err # "nil" THEN "couldn't get diskstats" ELSE "nil",
     ch |-> IF read.err # "nil" THEN <<>> ELSE diskRange(descs, read.stats)]

----------------------------------------------------------------------------
(* time collector *)

NewTimeCollector ==
    typedDesc(NewDesc(<<namespace, "", "time_seconds">>,
                      "System time in seconds since epoch (1970).", <<>>), GaugeValue)

\* time.Now().UnixNano() readings: inside a cycle, and when driven directly
CycleNanos == {1500000000}
UnixNanos == CycleNanos \cup {2000000000}

\* timeCollector.Update
timeUpdate(c, unixNano) ==
    [probe |-> "time", fixtures |-> "", msgs |-> <<>>, stats |-> <<>>,
     nGet |-> 0, nRead |-> 0, err |-> "nil",
     ch |-> << mustNewConstMetric(c, FloatDiv(unixNano, NanosPerSecond), <<>>) >>]

----------------------------------------------------------------------------
(* Registry: the three init() functions register their collector with a    *)
(* default state                                                           *)

defaultEnabled == TRUE
defaultDisabled == FALSE

\* qdisc registered as enabled by default
qdiscDefaultEnabled == defaultEnabled

qdiscDefault == defaultDisabled
diskstatsDefault == defaultEnabled
timeDefault == defaultEnabled

collectorState ==
    [n \in {"qdisc", "diskstats", "time"} |->
        CASE n = "qdisc" -> qdiscDefault
          [] n = "diskstats" -> diskstatsDefault
          [] n = "time" -> timeDefault]

Names == DOMAIN collectorState

----------------------------------------------------------------------------
(* The collectors driven directly, as their unit tests drive them *)

FixtureDirs == {"", "fixtures/qdisc"}

NoCall == [probe |-> "none", fixtures |-> "", msgs |-> <<>>, stats |-> <<>>,
           nGet |-> 0, nRead |-> 0, err |-> "nil", ch |-> <<>>]

EngineIdle ==
    /\ phase = "init"
    /\ overrides = [n \in Names |-> "default"]
    /\ parallel = TRUE
    /\ instances = {}
    /\ cycle = "Idle"
    /\ probeState = [n \in Names |-> "None"]
    /\ out = <<>>

Init ==
    /\ collectorQdisc = ""
    /\ fixtureFile \in Files(MaxMsgs)
    /\ call = NoCall
    /\ EngineIdle

\* the flag collector.qdisc.fixtures is given a value
SetCollectorQdisc ==
    /\ \E f \in FixtureDirs : collectorQdisc' = f
    /\ collectorQdisc' # collectorQdisc
    /\ UNCHANGED <<fixtureFile, call, engineVars>>

QdiscUpdate ==
    /\ \E get \in GetReturns(collectorQdisc, MaxMsgs) :
         call' = qdiscUpdate(NewQdiscStatCollector, collectorQdisc, fixtureFile, get)
    /\ UNCHANGED <<collectorQdisc, fixtureFile, engineVars>>

DiskstatsUpdate ==
    /\ \E read \in ReadDriveStatsReturns(MaxDrives) :
         call' = diskstatsUpdate(NewDiskstatsCollector, read)
    /\ UNCHANGED <<collectorQdisc, fixtureFile, engineVars>>

TimeUpdate ==
    /\ \E now \in UnixNanos : call' = timeUpdate(NewTimeCollector, now)
    /\ UNCHANGED <<collectorQdisc, fixtureFile, engineVars>>

Next ==
    \/ SetCollectorQdisc
    \/ QdiscUpdate
    \/ DiskstatsUpdate
    \/ TimeUpdate

Spec == Init /\ [][Next]_vars

----------------------------------------------------------------------------
(* Registry instantiation and the scrape engine (spec.md 4.3, 4.4, 5) *)

OverrideValues == {"default", "enable", "disable"}

\* defaults first, explicit per-name overrides second
Enabled(ov, n) ==
    IF ov[n] = "enable" THEN TRUE
    ELSE IF ov[n] = "disable" THEN FALSE
    ELSE collectorState[n]

scrapeSuccessDesc ==
    typedDesc(NewDesc(BuildFQName(namespace, "scrape", "collector_success"),
                      "Whether a collector succeeded.", <<"collector">>), GaugeValue)

scrapeDurationDesc ==
    typedDesc(NewDesc(BuildFQName(namespace, "scrape", "collector_duration_seconds"),
                      "Duration of a collector scrape.", <<"collector">>), GaugeValue)

scrapeSummaryDesc ==
    typedDesc(NewDesc(BuildFQName(namespace, "scrape", "collectors_scraped"),
                      "Number of collectors scraped in this cycle.", <<>>), GaugeValue)

\* the order in which a sequential cycle runs its probes
ProbeOrder == <<"diskstats", "qdisc", "time">>

Position(n) == CHOOSE i \in DOMAIN ProbeOrder : ProbeOrder[i] = n

\* the Update outcomes a probe can have inside a cycle
Updates(n) ==
    CASE n = "qdisc" ->
           {qdiscUpdate(NewQdiscStatCollector, collectorQdisc, fixtureFile, get) :
                get \in GetReturns(collectorQdisc, MaxCycleMsgs)}
      [] n = "diskstats" ->
           {diskstatsUpdate(NewDiskstatsCollector, read) :
                read \in ReadDriveStatsReturns(MaxCycleDrives)}
      [] n = "time" ->
           {timeUpdate(NewTimeCollector, now) : now \in CycleNanos}

\* the fixture files a cycle is run against
CycleFiles ==
    {f \in Files(MaxCycleMsgs) :
        /\ f.kind \in {"missing", "array"}
        /\ \A i \in DOMAIN f.elems : f.elems[i] \in {ToJSON(RootEth0), BadParent}}

\* elapsed times (s) the engine can measure
Durations == 1..MaxDuration

EngineInit ==
    /\ collectorQdisc = ""
    /\ fixtureFile \in CycleFiles
    /\ call = NoCall
    /\ EngineIdle

\* startup: the command line is parsed
ParseFlags ==
    /\ phase = "init"
    /\ phase' = "parsed"
    /\ overrides' \in [Names -> OverrideValues]
    /\ parallel' \in BOOLEAN
    /\ collectorQdisc' \in FixtureDirs
    /\ UNCHANGED <<fixtureFile, call, instances, cycle, probeState, out>>

\* startup: one instance per enabled registration
Instantiate ==
    /\ phase = "parsed"
    /\ phase' = "serving"
    /\ instances' = {n \in Names : Enabled(overrides, n)}
    /\ UNCHANGED <<collectorQdisc, fixtureFile, call, overrides, parallel, cycle,
                   probeState, out>>

\* a scrape request arrives
StartCycle ==
    /\ phase = "serving"
    /\ cycle = "Idle"
    /\ cycle' = "Running"
    /\ probeState' = [n \in Names |-> IF n \in instances THEN "Pending" ELSE "None"]
    /\ out' = <<>>
    /\ UNCHANGED <<collectorQdisc, fixtureFile, call, phase, overrides, parallel, instances>>

\* a probe that may be run again after it has returned
MayRunAgain(n) ==
    /\ cycle = "Running"
    /\ probeState[n] # "None"
    /\ parallel \/ \A m \in Names : probeState[m] = "Pending" => Position(n) <= Position(m)

MayRun(n) ==
    /\ cycle = "Running"
    /\ probeState[n] = "Pending"
    /\ parallel \/ \A m \in Names : probeState[m] = "Pending" => Position(n) <= Position(m)

\* one probe is timed and updated; its samples go to the output stream as
\* it sends them, followed by its success and duration meta-metrics
Execute(n) ==
    /\ MayRun(n)
    /\ \E r \in Updates(n), d \in Durations :
         /\ out' = out \o r.ch \o
                <<mustNewConstMetric(scrapeSuccessDesc,
                                     Float64(IF r.err = "nil" THEN 1 ELSE 0), <<n>>),
                  mustNewConstMetric(scrapeDurationDesc, Float64(d), <<n>>)>>
         /\ probeState' = [probeState EXCEPT
                              ![n] = IF r.err = "nil" THEN "Succeeded" ELSE "Failed"]
    /\ UNCHANGED <<collectorQdisc, fixtureFile, call, phase, overrides, parallel,
                   instances, cycle>>

\* all probes have run: the cycle summary is emitted and the cycle is done
Finish ==
    /\ cycle = "Running"
    /\ \A n \in Names : probeState[n] # "Pending"
    /\ out' = Append(out, mustNewConstMetric(scrapeSummaryDesc,
                              Float64(Cardinality(instances)), <<>>))
    /\ cycle' = "Done"
    /\ UNCHANGED <<collectorQdisc, fixtureFile, call, phase, overrides, parallel,
                   instances, probeState>>

\* the response has been served; the engine waits for the next request
EndCycle ==
    /\ cycle = "Done"
    /\ cycle' = "Idle"
    /\ UNCHANGED <<collectorQdisc, fixtureFile, call, phase, overrides, parallel,
                   instances, probeState, out>>

ExecuteQdisc == Execute("qdisc")
ExecuteDiskstats == Execute("diskstats")
ExecuteTime == Execute("time")

EngineNext ==
    \/ ParseFlags
    \/ Instantiate
    \/ StartCycle
    \/ ExecuteQdisc
    \/ ExecuteDiskstats
    \/ ExecuteTime
    \/ Finish
    \/ EndCycle

EngineSpec == EngineInit /\ [][EngineNext]_vars

\* a running cycle keeps going: a pending probe is run, and a cycle whose
\* probes have all returned is finished
CycleStep == ExecuteQdisc \/ ExecuteDiskstats \/ ExecuteTime \/ Finish

\* the engine started in a directory without a fixture file
EngineFairInit == EngineInit /\ fixtureFile.kind = "missing"

EngineFairSpec == EngineFairInit /\ [][EngineNext]_vars /\ WF_vars(CycleStep)

----------------------------------------------------------------------------
(* Vocabulary of the properties *)

Roots(msgs) == SelectSeq(msgs, LAMBDA m : m.Parent = 0)
NonRoots(msgs) == SelectSeq(msgs, LAMBDA m : m.Parent # 0)

QdiscOK == call.probe = "qdisc" /\ call.err = "nil"
DiskOK == call.probe = "diskstats" /\ call.err = "nil"

\* the root entry the j-th sample of a qdisc Update belongs to
RootOf(j) == Roots(call.msgs)[((j - 1) \div 7) + 1]

QdiscSeriesNames ==
    <<"bytes_total", "packets_total", "drops_total", "requeues_total",
      "overlimits_total", "current_queue_length", "backlog">>
QdiscSeriesFields ==
    <<"Bytes", "Packets", "Drops", "Requeues", "Overlimits", "Qlen", "Backlog">>
QdiscSeriesTypes ==
    <<"counter", "counter", "counter", "counter", "counter", "gauge", "gauge">>

Range(f) == {f[i] : i \in DOMAIN f}

\* C2: a successful qdisc Update emits 7 samples for each of the N entries
\* with Parent = 0, in their order in the list, and nothing for the M entries
\* with Parent # 0, so 7*N samples and never 7*(N+M)
C2_RootsOnly ==
    QdiscOK =>
        /\ Len(call.ch) = 7 * Len(Roots(call.msgs))
        /\ Len(Roots(call.msgs)) + Len(NonRoots(call.msgs)) = Len(call.msgs)
        /\ \A j \in DOMAIN call.ch :
              call.ch[j].labels = <<RootOf(j).IfaceName, RootOf(j).Kind>>

C2_Witness ==
    /\ QdiscOK
    /\ Len(call.msgs) = 2
    /\ call.msgs[1].Parent # 0
    /\ call.msgs[2].Parent = 0
    /\ Len(call.ch) = 7

\* C3: for every root entry the qdisc Update emits exactly the series bytes,
\* packets, drops, requeues, overlimits, qlength, backlog in this order,
\* labelled {device, kind} of the entry, valued by the entry's Bytes, Packets,
\* Drops, Requeues, Overlimits, Qlen, Backlog, the first five as counters and
\* the last two as gauges
C3_SevenSeries ==
    QdiscOK =>
        \A i \in DOMAIN Roots(call.msgs) : \A k \in 1..7 :
            LET m == call.ch[7 * (i - 1) + k]
                q == Roots(call.msgs)[i]
            IN /\ 7 * i <= Len(call.ch)
               /\ m.desc.fqName = <<"node", "qdisc", QdiscSeriesNames[k]>>
               /\ m.desc.variableLabels = <<"device", "kind">>
               /\ m.labels = <<q.IfaceName, q.Kind>>
               /\ m.value = [num |-> q[QdiscSeriesFields[k]], den |-> 1]
               /\ m.valueType = QdiscSeriesTypes[k]

C3_Witness ==
    /\ QdiscOK
    /\ call.msgs = <<RootEth0>>
    /\ [k \in 1..7 |-> call.ch[k].value.num] = <<1000, 10, 0, 0, 0, 5, 200>>
    /\ \A k \in 1..7 : call.ch[k].labels = <<"eth0", "pfifo">>

\* how many samples of a sequence carry a descriptor and a label tuple
Count(ch, desc, labels) ==
    Cardinality({j \in DOMAIN ch : ch[j].desc = desc /\ ch[j].labels = labels})

Entities(list, labelsOf(_)) == {labelsOf(list[i]) : i \in DOMAIN list}

Occurrences(list, labelsOf(_), labels) ==
    Cardinality({i \in DOMAIN list : labelsOf(list[i]) = labels})

\* every entity of the list has each declared series as often as it occurs
\* in the list, and the call sent nothing else
AllOrNothing(ch, descs, list, labelsOf(_)) ==
    /\ \A j \in DOMAIN ch :
          /\ ch[j].desc \in descs
          /\ ch[j].labels \in Entities(list, labelsOf)
    /\ \A labels \in Entities(list, labelsOf) : \A d \in descs :
          Count(ch, d, labels) = Occurrences(list, labelsOf, labels)

DriveLabels(stats) == <<stats.Name>>
QdiscLabels(msg) == <<msg.IfaceName, msg.Kind>>

DiskDescs == {NewDiskstatsCollector[k].desc : k \in DOMAIN NewDiskstatsCollector}
QdiscDescs == {NewQdiscStatCollector[f].desc : f \in DOMAIN NewQdiscStatCollector}

\* C4: a diskstats Update that returns has sent, for every drive the data
\* source returned, each of the 12 declared counters exactly once under the
\* drive's name, or (when it failed) nothing at all: never a strict non-empty
\* subset of a drive's counters; likewise the 7 series of each root qdisc entry
C4_Atomicity ==
    /\ Cardinality(DiskDescs) = 12
    /\ Cardinality(QdiscDescs) = 7
    /\ call.probe = "diskstats" =>
          IF call.err = "nil"
          THEN AllOrNothing(call.ch, DiskDescs, call.stats, DriveLabels)
          ELSE call.ch = <<>>
    /\ call.probe = "qdisc" =>
          IF call.err = "nil"
          THEN AllOrNothing(call.ch, QdiscDescs, Roots(call.msgs), QdiscLabels)
          ELSE call.ch = <<>>

C4_Witness ==
    /\ DiskOK
    /\ call.stats = <<Disk1, Disk0>>
    /\ Len(call.ch) = 24

C7_NoSamplesOnError ==
    (call.probe \in {"qdisc", "diskstats"} /\ call.err # "nil") => call.ch = <<>>

C7_Witness ==
    /\ call.probe = "qdisc"
    /\ call.err = "UnmarshalTypeError"
    /\ Roots(call.msgs) # <<>>
    /\ call.ch = <<>>

ReadOnce ==
    call.probe = "qdisc" =>
        /\ call.nGet + call.nRead = 1
        /\ call.fixtures # "" => (call.nRead = 1 /\ call.nGet = 0)
        /\ call.fixtures = "" => (call.nGet = 1 /\ call.nRead = 0)

\* C8: a qdisc Update reads its data source exactly once, the fixture
\* directory when the flag is set and qdisc.Get() when it is empty, never
\* both; and for the same entry list the samples sent on the fixture path
\* and on the live path are the same sequence
C8_OneSourceSameEmission ==
    /\ []ReadOnce
    /\ [][(/\ call.probe = "qdisc" /\ call.err = "nil"
           /\ call'.probe = "qdisc" /\ call'.err = "nil"
           /\ call.nRead # call'.nRead
           /\ call.msgs = call'.msgs)
             => call'.ch = call.ch]_vars

C8_Witness ==
    /\ QdiscOK
    /\ call.nRead = 1
    /\ call.fixtures = "fixtures/qdisc"
    /\ call.msgs = <<ChildEth0, RootEth1>>
    /\ Len(call.ch) = 7

SectorsHelp(k) == NewDiskstatsCollector[k].desc.help

\* C10: for a drive with a non-zero block size, the sample whose help is
\* "total number of sectors read successfully" is bytes read / block size,
\* the one for sectors written is bytes written / block size, and the
\* completed reads and writes are the drive's NumRead and NumWrite
C10_SectorsFromBytes ==
    DiskOK =>
        \A i \in DOMAIN call.stats :
            LET st == call.stats[i]
                m(k) == call.ch[12 * (i - 1) + k]
            IN st.BlockSize # 0 =>
                 /\ m(1).value = Float64(st.NumRead)
                 /\ m(4).value = Float64(st.NumWrite)
                 /\ m(2).desc.fqName = <<"node", "disk", "read_sectors_total">>
                 /\ m(5).desc.fqName = <<"node", "disk", "written_sectors_total">>
                 /\ m(2).value.num * st.BlockSize = st.BytesRead * m(2).value.den
                 /\ m(5).value.num * st.BlockSize = st.BytesWritten * m(5).value.den

----------------------------------------------------------------------------
(* Properties of a scrape cycle *)

SubsystemOf(n) ==
    CASE n = "qdisc" -> "qdisc"
      [] n = "diskstats" -> diskSubsystem
      [] n = "time" -> ""

\* the samples of the output stream that probe n's Update sent
Substantive(n) == SelectSeq(out, LAMBDA m : m.desc.fqName[2] = SubsystemOf(n))

\* the meta-metrics of descriptor d in the output stream that name probe n
Meta(d, n) == SelectSeq(out, LAMBDA m : m.desc = d.desc /\ m.labels = <<n>>)

Summaries == SelectSeq(out, LAMBDA m : m.desc = scrapeSummaryDesc.desc)

FailedProbes == {n \in instances : probeState[n] = "Failed"}

\* C1: a finished cycle in which exactly one enabled probe failed holds no
\* substantive sample of that probe, the samples of the others, and exactly
\* one success and one duration meta-metric for every enabled probe, with
\* success 0 for the failed probe and 1 for the others; the cycle itself
\* has finished like any other
C1_FailureIsLocal ==
    (cycle = "Done" /\ Cardinality(FailedProbes) = 1) =>
        /\ \A n \in instances :
              /\ Len(Meta(scrapeSuccessDesc, n)) = 1
              /\ Len(Meta(scrapeDurationDesc, n)) = 1
              /\ Meta(scrapeSuccessDesc, n)[1].value =
                    [num |-> IF n \in FailedProbes THEN 0 ELSE 1, den |-> 1]
        /\ \A n \in FailedProbes : Substantive(n) = <<>>
        /\ \A n \in Names \ instances :
              /\ Substantive(n) = <<>>
              /\ Meta(scrapeSuccessDesc, n) = <<>>
              /\ Meta(scrapeDurationDesc, n) = <<>>
        /\ ("time" \in instances \ FailedProbes) => Len(Substantive("time")) = 1
        /\ Len(Substantive("qdisc")) % 7 = 0
        /\ Len(Substantive("diskstats")) % 12 = 0
        /\ Len(out) = Len(Substantive("qdisc")) + Len(Substantive("diskstats"))
                        + Len(Substantive("time")) + 2 * Cardinality(instances) + 1

C1_Witness ==
    /\ cycle = "Done"
    /\ instances = Names
    /\ FailedProbes = {"qdisc"}
    /\ collectorQdisc # ""
    /\ Len(Substantive("diskstats")) = 12
    /\ Len(Substantive("time")) = 1
    /\ Len(out) = 20

NoSamplesOf(n) ==
    /\ Substantive(n) = <<>>
    /\ Meta(scrapeSuccessDesc, n) = <<>>
    /\ Meta(scrapeDurationDesc, n) = <<>>

\* C5: once the registry is instantiated, qdisc (disabled by default) is an
\* instance when it was force-enabled; diskstats and time (enabled by
\* default) are no instances when force-disabled, and then no cycle holds a
\* sample of theirs, meta-metrics included; and with no override given the
\* instances are exactly diskstats and time
C5_OverridePrecedence ==
    phase = "serving" =>
        /\ overrides["qdisc"] = "enable" => "qdisc" \in instances
        /\ \A n \in {"diskstats", "time"} :
              overrides[n] = "disable" => (n \notin instances /\ NoSamplesOf(n))
        /\ (\A n \in Names : overrides[n] = "default") => instances = {"diskstats", "time"}

C5_Witness ==
    /\ cycle = "Done"
    /\ overrides = [qdisc |-> "enable", diskstats |-> "disable", time |-> "default"]
    /\ instances = {"qdisc", "time"}
    /\ Len(Substantive("qdisc")) = 7
    /\ Len(out) = 13

SummaryOnce ==
    /\ \A n \in Names : (probeState[n] = "None") <=> (n \notin instances \/ phase # "serving"
                                                        \/ (cycle = "Idle" /\ out = <<>>))
    /\ cycle = "Running" => Summaries = <<>>
    /\ cycle = "Done" =>
          /\ Len(Summaries) = 1
          /\ out[Len(out)] = Summaries[1]
          /\ \A n \in Names : probeState[n] # "Pending"
          /\ Summaries[1].value =
                Float64(Cardinality({n \in Names : probeState[n] \in {"Succeeded", "Failed"}}))
          /\ Summaries[1].value = Float64(Cardinality(instances))

ProbeStep ==
    \A n \in Names :
        /\ probeState[n] = "Pending" => probeState'[n] \in {"Pending", "Succeeded", "Failed"}
        /\ (probeState[n] \in {"Succeeded", "Failed"} /\ ~(cycle = "Idle" /\ cycle' = "Running"))
              => probeState'[n] = probeState[n]
        /\ (probeState[n] = "Pending" /\ probeState'[n] # "Pending")
              => Len(Meta(scrapeSuccessDesc, n)') = Len(Meta(scrapeSuccessDesc, n)) + 1

\* C9: in a cycle, parallel or sequential, every enabled probe leaves Pending
\* for Succeeded or Failed once and then keeps that state; a running cycle
\* reaches Done; the cycle summary is sent once, as the last sample, when no
\* probe is Pending, and its value is the number of probes scraped
C9_CycleStateMachine ==
    /\ []SummaryOnce
    /\ [][ProbeStep]_vars
    /\ (cycle = "Running") ~> (cycle = "Done")

C9_Witness ==
    /\ cycle = "Done"
    /\ ~parallel
    /\ instances = Names
    /\ probeState = [qdisc |-> "Succeeded", diskstats |-> "Failed", time |-> "Succeeded"]
    /\ Summaries = <<mustNewConstMetric(scrapeSummaryDesc, Float64(3), <<>>)>>

====
